---------------------------- MODULE Spec2Model ----------------------------
(***************************************************************************)
(* Model of telegram_shop_bot.py: the three SQLite tables (products,       *)
(* carts, orders), the per-user user_data flag, and the handlers of the    *)
(* bot as coroutines.  A handler is one asyncio task: it suspends only at  *)
(* an `await`, so the database calls between two awaits of one handler run *)
(* without interleaving.  Every handler here has the shape                 *)
(*     Receive -> (first await) -> body -> (reply await) -> Finish         *)
(*                                                                         *)
(* Spec is the bot as main() builds it: the Application is built without   *)
(* concurrent_updates, so it awaits the handler of one update before it    *)
(* takes the next, and one handler is in flight at a time.  AddRaceSpec    *)
(* and CheckoutRaceSpec put several handlers in flight at once, which is   *)
(* what the Application does once concurrent updates are switched on.      *)
(* Every specification lets a handler function be invoked on any update    *)
(* its own filter accepts.                                                 *)
(***************************************************************************)
EXTENDS Integers, Sequences, FiniteSets, TLC

VARIABLES ADMIN_IDS, products, carts, orders, user_data, tasks, update_id

vars == <<ADMIN_IDS, products, carts, orders, user_data, tasks, update_id>>

(***************************************************************************)
(* Bound of the model: the updates taken from polling in one run.          *)
(***************************************************************************)
MaxUpdates == 6

Users == {1, 2}
Slots == {1, 2, 3}               \* handler tasks that can exist at once
None  == "None"                 \* Python's None as a column value (NULL)
NoRow == [none |-> TRUE]        \* Python's None where a row was looked up

(***************************************************************************)
(* Text conversions.  Strings are atoms for TLC, so int() and str.strip()  *)
(* are tables over the tokens the inputs are built from.                   *)
(***************************************************************************)
IntTokens == {"-1", "0", "1", "2", "5"}

\* int(s) succeeds (otherwise ValueError)
IsInt(s) == s \in IntTokens

int(s) ==
    CASE s = "-1" -> -1
      [] s = "0"  -> 0
      [] s = "1"  -> 1
      [] s = "2"  -> 2
      [] s = "5"  -> 5

\* str.strip()
strip(s) ==
    CASE s = " Widget " -> "Widget"
      [] s = " "        -> ""
      [] s = " d"       -> "d"
      [] s = " 5 "      -> "5"
      [] s = "-1 "      -> "-1"
      [] OTHER          -> s

(***************************************************************************)
(* Database helpers, as functions of the tables they read and write.       *)
(***************************************************************************)
Max(S) == CHOOSE x \in S : \A y \in S : y <= x

\* INTEGER PRIMARY KEY AUTOINCREMENT: one more than the largest id ever used
\* (no row of products or orders is ever deleted).
NextId(T) == IF T = {} THEN 1 ELSE Max({r.id : r \in T}) + 1

db_get_product(P, pid) ==
    IF \E r \in P : r.id = pid
    THEN CHOOSE r \in P : r.id = pid
    ELSE NoRow

\* db_add_product with the image column left out of the INSERT
db_add_product_no_image(P, title, description, price, image) ==
    P \cup {[id |-> NextId(P), title |-> title, description |-> description,
             price |-> price, image |-> None]}

db_add_product(P, title, description, price, image) ==
    P \cup {[id |-> NextId(P), title |-> title, description |-> description,
             price |-> price, image |-> image]}

\* every row sequence ORDER BY created_at DESC permits: rows of equal
\* created_at come in an order SQL leaves open
db_list_orders(O) ==
    {f \in [1..Cardinality(O) -> O] :
        /\ \A i, j \in DOMAIN f : i # j => f[i] # f[j]
        /\ \A i, j \in DOMAIN f : i < j => f[i].created_at >= f[j].created_at}

PAGE_SIZE == 6

\* the rows of P, largest id first (ORDER BY id DESC)
RECURSIVE DescById(_)
DescById(P) ==
    IF P = {} THEN <<>>
    ELSE LET r == CHOOSE x \in P : \A y \in P : y.id <= x.id
         IN  <<r>> \o DescById(P \ {r})

\* rows n+1 .. n+k of a sequence (LIMIT k OFFSET n; SQLite reads a negative
\* OFFSET as 0)
LimitOffset(rows, k, n) ==
    LET off == IF n < 0 THEN 0 ELSE n
        last == IF off + k < Len(rows) THEN off + k ELSE Len(rows)
    IN  SubSeq(rows, off + 1, last)

\* db_get_products with OFFSET page in place of OFFSET PAGE_SIZE * page
db_get_products_offset_page(P, page) ==
    LimitOffset(DescById(P), PAGE_SIZE, page)

db_get_products(P, page) ==
    LimitOffset(DescById(P), PAGE_SIZE, PAGE_SIZE * page)

CartRows(C, user_id, product_id) ==
    {r \in C : r.user_id = user_id /\ r.product_id = product_id}

\* UPDATE carts SET qty = ? in place of SET qty = qty + ?
add_qty_overwrite(old, qty) == qty

\* UPDATE carts SET qty = qty + ?
add_qty(old, qty) == old + qty

\* db_add_to_cart without the SELECT: always INSERT, on a table with no key
db_add_to_cart_insert(C, user_id, product_id, qty) ==
    C \cup {[user_id |-> user_id, product_id |-> product_id, qty |-> qty]}

\* SELECT, then UPDATE or INSERT.  The INSERT runs only when the SELECT of the
\* same uninterrupted call found no row, so the PRIMARY KEY (user_id,
\* product_id) never rejects it.
db_add_to_cart(C, user_id, product_id, qty) ==
    IF CartRows(C, user_id, product_id) # {}
    THEN {IF r \in CartRows(C, user_id, product_id)
          THEN [r EXCEPT !.qty = add_qty(r.qty, qty)] ELSE r : r \in C}
    ELSE C \cup {[user_id |-> user_id, product_id |-> product_id, qty |-> qty]}

\* the DELETE of the remove branch with `AND product_id = ?` left out
db_remove_from_cart_any_product(C, user_id, product_id) ==
    {r \in C : r.user_id # user_id}

\* DELETE FROM carts WHERE user_id = ? AND product_id = ?
db_remove_from_cart(C, user_id, product_id) ==
    C \ CartRows(C, user_id, product_id)

\* db_clear_cart whose DELETE is never committed
db_clear_cart_uncommitted(C, user_id) == C

\* db_clear_cart whose DELETE has no WHERE clause
db_clear_cart_all_users(C, user_id) == {}

db_clear_cart(C, user_id) == {r \in C : r.user_id # user_id}

\* SELECT product_id, qty FROM carts WHERE user_id = ?  (rows come back in the
\* order of the primary-key index: by product_id)
RECURSIVE RowSeq(_)
RowSeq(S) ==
    IF S = {} THEN <<>>
    ELSE LET r == CHOOSE x \in S : \A y \in S : x.product_id <= y.product_id
         IN  <<r>> \o RowSeq(S \ {r})

\* db_get_cart without the `continue` of line 138
RECURSIVE CartLoop_keep_missing(_, _)
CartLoop_keep_missing(P, rows) ==
    IF rows = <<>> THEN [items |-> <<>>, total |-> 0]
    ELSE LET rest == CartLoop_keep_missing(P, Tail(rows))
             p    == db_get_product(P, Head(rows).product_id)
             q    == IF p = NoRow
                     THEN [id |-> Head(rows).product_id, title |-> None,
                           description |-> None, price |-> 0, image |-> None]
                     ELSE p
         IN  [items |-> <<[product |-> q, qty |-> Head(rows).qty]>> \o rest.items,
              total |-> q.price * Head(rows).qty + rest.total]

\* db_get_cart with `total += p['price']`, the quantity left out
RECURSIVE CartLoop_unit_price(_, _)
CartLoop_unit_price(P, rows) ==
    IF rows = <<>> THEN [items |-> <<>>, total |-> 0]
    ELSE LET rest == CartLoop_unit_price(P, Tail(rows))
             p    == db_get_product(P, Head(rows).product_id)
         IN  IF p = NoRow THEN rest
             ELSE [items |-> <<[product |-> p, qty |-> Head(rows).qty]>> \o rest.items,
                   total |-> p.price + rest.total]

RECURSIVE CartLoop(_, _)
CartLoop(P, rows) ==
    IF rows = <<>> THEN [items |-> <<>>, total |-> 0]
    ELSE LET rest == CartLoop(P, Tail(rows))
             p    == db_get_product(P, Head(rows).product_id)
         IN  IF p = NoRow THEN rest
             ELSE [items |-> <<[product |-> p, qty |-> Head(rows).qty]>> \o rest.items,
                   total |-> p.price * Head(rows).qty + rest.total]

db_get_cart(C, P, user_id) ==
    CartLoop(P, RowSeq({r \in C : r.user_id = user_id}))

\* db_create_order storing the number of items as the total
db_create_order_item_count(O, user_id, items, total, ts) ==
    O \cup {[id |-> NextId(O), user_id |-> user_id, items |-> items,
             total |-> Len(items), status |-> "new", created_at |-> ts]}

\* db_create_order as INSERT OR REPLACE keyed by user_id
db_create_order_replace_users(O, user_id, items, total, ts) ==
    {o \in O : o.user_id # user_id}
      \cup {[id |-> NextId(O), user_id |-> user_id, items |-> items,
              total |-> total, status |-> "new", created_at |-> ts]}

db_create_order(O, user_id, items, total, ts) ==
    O \cup {[id |-> NextId(O), user_id |-> user_id, items |-> items,
             total |-> total, status |-> "new", created_at |-> ts]}

\* CURRENT_TIMESTAMP has a resolution of one second and never runs backwards:
\* a new row gets the latest stored created_at or a later one.
Timestamps(O) ==
    IF O = {} THEN {0}
    ELSE {Max({r.created_at : r \in O}), Max({r.created_at : r \in O}) + 1}

(***************************************************************************)
(* Updates and handler tasks.                                              *)
(***************************************************************************)
Idle == [h |-> "idle", user |-> 0, data |-> <<>>, pc |-> "idle", res |-> "", oid |-> 0]

NewTask(h, u, d) ==
    [h |-> h, user |-> u, data |-> d, pc |-> "start", res |-> "", oid |-> 0]

\* callback data, as data.split('_') yields it
PidTokens == {"1", "2"}
QtyTokens == {"1", "0", "-1"}

CallbackData ==
    {<<"add", p, q>> : p \in PidTokens, q \in QtyTokens}
        \cup {<<"add", "1">>, <<"add", "x", "1">>}
        \cup {<<"remove", p>> : p \in PidTokens}
        \cup {<<"view", "1">>, <<"back", "0">>, <<"checkout", "0">>}

\* message text, as txt.split('|') yields it
Texts ==
    { <<" Widget ", " d", " 5 ">>,
      <<" ", "d", "-1 ">>,
      <<"Widget", "d">>,
      <<"Widget", "d", "x">> }

\* the updates of the model: the handler, the sender and the payload
Updates ==
    [h : {"callback_query_handler"}, user : Users, data : CallbackData]
        \cup [h : {"checkout_callback"}, user : Users, data : {<<"checkout", "0">>}]
        \cup [h : {"admin_add_start", "admin_list_orders_cmd"}, user : Users, data : {<<>>}]
        \cup [h : {"text_handler"}, user : Users, data : Texts]

LineQty(C, u, p) ==
    IF CartRows(C, u, p) = {} THEN 0 ELSE (CHOOSE r \in CartRows(C, u, p) : TRUE).qty

Done(s, res, oid) ==
    tasks' = [tasks EXCEPT ![s] = [@ EXCEPT !.pc = "reply", !.res = res, !.oid = oid]]

(***************************************************************************)
(* An update of E arrives and its handler starts (up to its first await).  *)
(* update_id counts the updates taken so far.                              *)
(***************************************************************************)
Receive(s, E) ==
    /\ tasks[s] = Idle
    /\ \E e \in E :
          tasks' = [tasks EXCEPT ![s] = NewTask(e.h, e.user, e.data)]
    /\ update_id < MaxUpdates
    /\ update_id' = update_id + 1
    /\ UNCHANGED <<ADMIN_IDS, products, carts, orders, user_data>>

Running(s, h) == tasks[s].h = h /\ tasks[s].pc = "start"

(***************************************************************************)
(* callback_query_handler, from `await q.answer()` to its reply.  An       *)
(* exception raised by int() or by the tuple unpacking ends the handler    *)
(* ("crash"): the application logs it and goes on.                         *)
(***************************************************************************)
callback_query_handler(s) ==
    /\ Running(s, "callback_query_handler")
    /\ LET data    == tasks[s].data
           user_id == tasks[s].user
       IN  IF data[1] = "view" /\ Len(data) >= 2 THEN
               /\ UNCHANGED carts
               /\ IF ~IsInt(data[2]) THEN Done(s, "crash", 0)
                  ELSE IF db_get_product(products, int(data[2])) = NoRow
                       THEN Done(s, "not_found", 0)
                       ELSE Done(s, "product_shown", 0)
           ELSE IF data[1] = "add" /\ Len(data) >= 2 THEN
               IF Len(data) # 3 \/ ~IsInt(data[2]) \/ ~IsInt(data[3])
               THEN /\ UNCHANGED carts
                    /\ Done(s, "crash", 0)
               ELSE /\ carts' = db_add_to_cart(carts, user_id, int(data[2]), int(data[3]))
                    /\ Done(s, "added", 0)
           ELSE IF data = <<"back", "0">> THEN
               \* catalog(update, context) reads update.message, which a
               \* callback-query update does not have: AttributeError
               /\ UNCHANGED carts
               /\ Done(s, "crash", 0)
           ELSE IF data[1] = "remove" /\ Len(data) >= 2 THEN
               IF ~IsInt(data[2])
               THEN /\ UNCHANGED carts
                    /\ Done(s, "crash", 0)
               ELSE /\ carts' = db_remove_from_cart(carts, user_id, int(data[2]))
                    /\ Done(s, "removed", 0)
           ELSE
               /\ UNCHANGED carts
               /\ Done(s, "ignored", 0)
    /\ UNCHANGED <<update_id, ADMIN_IDS, products, orders, user_data>>

(***************************************************************************)
(* checkout_callback, from `await q.answer()` to its reply.  Its two       *)
(* writes are two commits on two connections; either may raise             *)
(* sqlite3.Error (or the process may die between them), which ends the     *)
(* handler where it is.                                                    *)
(***************************************************************************)
StorageFaults == {"none", "create", "clear"}

\* payload_items that stores every item with qty 1
payload_items_unit_qty(items) ==
    [i \in 1..Len(items) |->
        [product_id |-> items[i].product.id, title |-> items[i].product.title,
         qty |-> 1, price |-> items[i].product.price]]

payload_items(items) ==
    [i \in 1..Len(items) |->
        [product_id |-> items[i].product.id, title |-> items[i].product.title,
         qty |-> items[i].qty, price |-> items[i].product.price]]

\* lines 277-278 swapped: db_clear_cart, then db_create_order
checkout_writes_clear_first(O, C, user, items, total, ts, fault) ==
    IF fault = "clear"
    THEN [orders |-> O, carts |-> C, res |-> "crash", oid |-> 0]
    ELSE IF fault = "create"
    THEN [orders |-> O, carts |-> db_clear_cart(C, user), res |-> "crash", oid |-> 0]
    ELSE [orders |-> db_create_order(O, user, items, total, ts),
          carts |-> db_clear_cart(C, user),
          res |-> "order_created", oid |-> NextId(O)]

\* lines 277-278: db_create_order, then db_clear_cart, each its own commit
checkout_writes(O, C, user, items, total, ts, fault) ==
    IF fault = "create"
    THEN [orders |-> O, carts |-> C, res |-> "crash", oid |-> 0]
    ELSE IF fault = "clear"
    THEN [orders |-> db_create_order(O, user, items, total, ts), carts |-> C,
          res |-> "crash", oid |-> NextId(O)]
    ELSE [orders |-> db_create_order(O, user, items, total, ts),
          carts |-> db_clear_cart(C, user),
          res |-> "order_created", oid |-> NextId(O)]

checkout_callback(s) ==
    /\ Running(s, "checkout_callback")
    /\ LET user == tasks[s].user
           cart == db_get_cart(carts, products, user)
       IN  IF cart.items = <<>> THEN
               /\ UNCHANGED <<orders, carts>>
               /\ Done(s, "empty_cart", 0)
           ELSE \E fault \in StorageFaults, ts \in Timestamps(orders) :
               LET w == checkout_writes(orders, carts, user, payload_items(cart.items),
                                        cart.total, ts, fault)
               IN  /\ orders' = w.orders
                   /\ carts' = w.carts
                   /\ Done(s, w.res, w.oid)
    /\ UNCHANGED <<update_id, ADMIN_IDS, products, user_data>>

(***************************************************************************)
(* Admin commands and the free-text submission.                            *)
(***************************************************************************)
\* the admin check left out
is_admin_anyone(user) == TRUE

\* user.id in ADMIN_IDS
is_admin(user) == user \in ADMIN_IDS

admin_add_start(s) ==
    /\ Running(s, "admin_add_start")
    /\ IF ~is_admin(tasks[s].user)
       THEN Done(s, "denied", 0)
       ELSE Done(s, "prompt", 0)
    /\ UNCHANGED <<update_id, ADMIN_IDS, products, carts, orders, user_data>>

\* text_handler without line 309: the flag stays set after a product was added
text_handler_keep_flag(s) ==
    /\ Running(s, "text_handler")
    /\ LET user  == tasks[s].user
           parts == [i \in 1..Len(tasks[s].data) |-> strip(tasks[s].data[i])]
       IN  IF user_data[user] /\ is_admin(user) THEN
               IF Len(parts) < 3 THEN
                   /\ UNCHANGED products
                   /\ Done(s, "bad_format", 0)
               ELSE IF ~IsInt(parts[3]) THEN
                   /\ UNCHANGED products
                   /\ Done(s, "bad_price", 0)
               ELSE
                   /\ products' = db_add_product(products, parts[1], parts[2], int(parts[3]),
                                                 IF Len(parts) > 3 THEN parts[4] ELSE None)
                   /\ Done(s, "product_added", 0)
           ELSE
               /\ UNCHANGED products
               /\ Done(s, "unknown_command", 0)
    /\ UNCHANGED <<update_id, ADMIN_IDS, carts, orders, user_data>>

text_handler(s) ==
    /\ Running(s, "text_handler")
    /\ LET user  == tasks[s].user
           parts == [i \in 1..Len(tasks[s].data) |-> strip(tasks[s].data[i])]
       IN  IF user_data[user] /\ is_admin(user) THEN
               IF Len(parts) < 3 THEN
                   /\ UNCHANGED <<products, user_data>>
                   /\ Done(s, "bad_format", 0)
               ELSE IF ~IsInt(parts[3]) THEN
                   /\ UNCHANGED <<products, user_data>>
                   /\ Done(s, "bad_price", 0)
               ELSE
                   /\ products' = db_add_product(products, parts[1], parts[2], int(parts[3]),
                                                 IF Len(parts) > 3 THEN parts[4] ELSE None)
                   /\ user_data' = [user_data EXCEPT ![user] = FALSE]
                   /\ Done(s, "product_added", 0)
           ELSE
               /\ UNCHANGED <<products, user_data>>
               /\ Done(s, "unknown_command", 0)
    /\ UNCHANGED <<update_id, ADMIN_IDS, carts, orders>>

admin_list_orders_cmd(s) ==
    /\ Running(s, "admin_list_orders_cmd")
    /\ IF ~is_admin(tasks[s].user) THEN Done(s, "denied", 0)
       ELSE IF orders = {} THEN Done(s, "no_orders", 0)
       ELSE Done(s, "orders_shown", 0)
    /\ UNCHANGED <<update_id, ADMIN_IDS, products, carts, orders, user_data>>

(***************************************************************************)
(* /catalog [page]: data holds context.args.                               *)
(***************************************************************************)
catalog_page(args) ==
    IF args # <<>> /\ IsInt(args[1]) THEN int(args[1]) ELSE 0

catalog(s) ==
    /\ Running(s, "catalog")
    /\ IF db_get_products(products, catalog_page(tasks[s].data)) = <<>>
       THEN Done(s, "catalog_empty", 0)
       ELSE Done(s, "catalog_shown", 0)
    /\ UNCHANGED <<update_id, ADMIN_IDS, products, carts, orders, user_data>>

start(s) ==
    /\ Running(s, "start")
    /\ Done(s, "greeted", 0)
    /\ UNCHANGED <<update_id, ADMIN_IDS, products, carts, orders, user_data>>

view_cart(s) ==
    /\ Running(s, "view_cart")
    /\ IF db_get_cart(carts, products, tasks[s].user).items = <<>>
       THEN Done(s, "cart_empty", 0)
       ELSE Done(s, "cart_shown", 0)
    /\ UNCHANGED <<update_id, ADMIN_IDS, products, carts, orders, user_data>>

(***************************************************************************)
(* The reply await returns and the handler ends.  admin_add_start sets     *)
(* user_data['admin_adding'] only here, after its reply was sent.          *)
(***************************************************************************)
Finish(s) ==
    /\ tasks[s].pc = "reply"
    /\ tasks' = [tasks EXCEPT ![s] = Idle]
    /\ user_data' = IF tasks[s].h = "admin_add_start" /\ tasks[s].res = "prompt"
                    THEN [user_data EXCEPT ![tasks[s].user] = TRUE]
                    ELSE user_data
    /\ UNCHANGED <<update_id, ADMIN_IDS, products, carts, orders>>

(***************************************************************************)
(* ADMIN_IDS is empty unless the environment names one admin; init_db      *)
(* creates the three tables empty.                                         *)
(***************************************************************************)
Init ==
    /\ ADMIN_IDS \in {{}, {1}}
    /\ products = {}
    /\ carts = {}
    /\ orders = {}
    /\ user_data = [u \in Users |-> FALSE]
    /\ tasks = [s \in Slots |-> Idle]
    /\ update_id = 0

Next ==
    \/ Receive(1, Updates)
    \/ callback_query_handler(1)
    \/ checkout_callback(1)
    \/ admin_add_start(1)
    \/ text_handler(1)
    \/ admin_list_orders_cmd(1)
    \/ Finish(1)

Spec == Init /\ [][Next]_vars

(***************************************************************************)
(* Add-to-cart updates handled concurrently: up to one handler per slot,   *)
(* interleaved at their awaits.                                            *)
(***************************************************************************)
AddUpdates ==
    [h : {"callback_query_handler"}, user : Users,
     data : {<<"add", p, q>> : p \in PidTokens, q \in QtyTokens}]

AddRaceNext ==
    \E s \in Slots :
        \/ Receive(s, AddUpdates)
        \/ callback_query_handler(s)

AddRaceSpec == Init /\ [][AddRaceNext]_vars

(***************************************************************************)
(* Checkout updates handled concurrently, on a database an earlier run     *)
(* left in shop.db (init_db keeps existing tables): the product Widget and *)
(* any cart lines.                                                         *)
(***************************************************************************)
CheckoutUpdates ==
    [h : {"checkout_callback"}, user : Users, data : {<<"checkout", "0">>}]

CartTables ==
    {C \in SUBSET [user_id : Users, product_id : {1, 2}, qty : {1, 2}] :
        \A r1, r2 \in C :
            (r1.user_id = r2.user_id /\ r1.product_id = r2.product_id) => r1 = r2}

CheckoutRaceInit ==
    /\ ADMIN_IDS = {1}
    /\ products = db_add_product({}, "Widget", "d", 5, None)
    /\ carts \in CartTables
    /\ orders = {}
    /\ user_data = [u \in Users |-> FALSE]
    /\ tasks = [s \in Slots |-> Idle]
    /\ update_id = 0

CheckoutRaceNext ==
    \E s \in Slots :
        \/ Receive(s, CheckoutUpdates)
        \/ checkout_callback(s)

CheckoutRaceSpec == CheckoutRaceInit /\ [][CheckoutRaceNext]_vars

(***************************************************************************)
(* /catalog on a products table an earlier run left in shop.db.            *)
(***************************************************************************)
MaxCatalog == 13   \* products stored when the bot starts

RECURSIVE ProductTable(_)
ProductTable(n) ==
    IF n = 0 THEN {}
    ELSE db_add_product(ProductTable(n - 1), "Widget", "d", 5, None)

CatalogUpdates ==
    [h : {"catalog"}, user : Users,
     data : {<<>>, <<"0">>, <<"1">>, <<"2">>, <<"5">>, <<"-1">>, <<"x">>}]

CatalogInit ==
    /\ ADMIN_IDS = {1}
    /\ \E n \in 0..MaxCatalog : products = ProductTable(n)
    /\ carts = {}
    /\ orders = {}
    /\ user_data = [u \in Users |-> FALSE]
    /\ tasks = [s \in Slots |-> Idle]
    /\ update_id = 0

CatalogNext ==
    \/ Receive(1, CatalogUpdates)
    \/ catalog(1)
    \/ Finish(1)

CatalogSpec == CatalogInit /\ [][CatalogNext]_vars

(***************************************************************************)
(* Updates dispatched as main() registers the handlers: all in one group,  *)
(* where the first handler whose filter accepts an update handles it and   *)
(* no later handler sees it.                                               *)
(***************************************************************************)
handlers ==
    << [kind |-> "command",        filter |-> "start",             callback |-> "start"],
       [kind |-> "command",        filter |-> "catalog",           callback |-> "catalog"],
       [kind |-> "command",        filter |-> "cart",              callback |-> "view_cart"],
       [kind |-> "command",        filter |-> "admin_add",         callback |-> "admin_add_start"],
       [kind |-> "command",        filter |-> "admin_list_orders", callback |-> "admin_list_orders_cmd"],
       [kind |-> "callback_query", filter |-> None,                callback |-> "callback_query_handler"],
       [kind |-> "callback_query", filter |-> "checkout",          callback |-> "checkout_callback"],
       [kind |-> "message",        filter |-> None,                callback |-> "text_handler"] >>

\* what the bot receives: commands with their arguments, button presses with
\* their callback data, plain texts
Incoming ==
    [kind : {"command"}, name : {"start", "cart", "admin_add", "admin_list_orders"},
     user : Users, data : {<<>>}]
        \cup [kind : {"command"}, name : {"catalog"}, user : Users, data : {<<>>, <<"1">>}]
        \cup [kind : {"callback_query"}, name : {None}, user : Users, data : CallbackData]
        \cup [kind : {"message"}, name : {None}, user : Users, data : Texts]

check_update(handler, update) ==
    /\ handler.kind = update.kind
    /\ CASE handler.kind = "command"        -> handler.filter = update.name
         [] handler.kind = "callback_query" ->
                handler.filter = None
                  \/ (Len(update.data) >= 2 /\ update.data[1] = handler.filter)
         [] OTHER                           -> TRUE

process_update(update) ==
    LET accepting == {i \in DOMAIN handlers : check_update(handlers[i], update)}
    IN  IF accepting = {} THEN None
        ELSE handlers[CHOOSE i \in accepting : \A j \in accepting : i <= j].callback

RoutedUpdates ==
    {[h |-> process_update(u), user |-> u.user, data |-> u.data] :
        u \in {v \in Incoming : process_update(v) # None}}

RoutedNext ==
    \/ Receive(1, RoutedUpdates)
    \/ start(1)
    \/ catalog(1)
    \/ view_cart(1)
    \/ admin_add_start(1)
    \/ admin_list_orders_cmd(1)
    \/ callback_query_handler(1)
    \/ text_handler(1)
    \/ Finish(1)

RoutedSpec == Init /\ [][RoutedNext]_vars

(***************************************************************************)
(* The product path alone: /admin_add, submissions with and without an     *)
(* image, and product views.                                               *)
(***************************************************************************)
ProductTexts ==
    { <<" Widget ", " d", " 5 ">>,
      <<"Gadget", " d", "2", "img">>,
      <<"Widget", "d", "x">> }

ProductUpdates ==
    [h : {"admin_add_start"}, user : Users, data : {<<>>}]
        \cup [h : {"text_handler"}, user : Users, data : ProductTexts]
        \cup [h : {"callback_query_handler"}, user : Users,
              data : {<<"view", "1">>, <<"view", "2">>, <<"view", "5">>}]

ProductNext ==
    \/ Receive(1, ProductUpdates)
    \/ admin_add_start(1)
    \/ text_handler(1)
    \/ callback_query_handler(1)
    \/ Finish(1)

ProductSpec == Init /\ [][ProductNext]_vars

(***************************************************************************)
(* Properties.                                                             *)
(***************************************************************************)
UserRows(C, u) == {r \in C : r.user_id = u}

Resolves(P, r) == \E p \in P : p.id = r.product_id

\* slot s runs the body of handler h in this step
BodyStep(s, h) == Running(s, h) /\ tasks'[s].pc = "reply"

DoneTask(s, h) == tasks[s].h = h /\ tasks[s].pc = "reply"

\* C1: a checkout of user u that returns, started on a cart that getCart
\* reports as non-empty, adds exactly one order, of u, whose total is the
\* total getCart reported before the step, and leaves no cart line of u; a
\* checkout on such a cart ends with the order or with a storage error, never
\* with the empty-cart reply.
CheckoutCreatesOneOrder ==
    [][\A s \in Slots :
          (BodyStep(s, "checkout_callback")
             /\ db_get_cart(carts, products, tasks[s].user).items # <<>>)
          => /\ tasks'[s].res \in {"order_created", "crash"}
             /\ tasks'[s].res = "order_created"
                  => /\ \E o \in orders' \ orders :
                          /\ orders' = orders \cup {o}
                          /\ o.id = tasks'[s].oid
                          /\ o.user_id = tasks[s].user
                          /\ o.total = db_get_cart(carts, products, tasks[s].user).total
                     /\ UserRows(carts', tasks[s].user) = {}]_vars

\* C1 witness: Widget (price 5) twice in the cart, checked out: an order of
\* total 10 with the one item (Widget, qty 2, price 5), and the cart empty.
CheckoutCreatesOneOrderWitness ==
    \E s \in Slots :
        /\ DoneTask(s, "checkout_callback")
        /\ tasks[s].res = "order_created"
        /\ UserRows(carts, tasks[s].user) = {}
        /\ \E o \in orders :
              /\ o.id = tasks[s].oid
              /\ o.user_id = tasks[s].user
              /\ o.total = 10
              /\ o.items = <<[product_id |-> 1, title |-> "Widget", qty |-> 2, price |-> 5]>>

\* C2: a checkout of user u on a cart with no line whose product resolves
\* ends with the empty-cart reply and writes nothing: orders, products and
\* every cart line are as before.
EmptyCheckoutNoEffect ==
    [][\A s \in Slots :
          (BodyStep(s, "checkout_callback")
             /\ \A r \in UserRows(carts, tasks[s].user) : ~Resolves(products, r))
          => /\ tasks'[s].res = "empty_cart"
             /\ orders' = orders
             /\ products' = products
             /\ carts' = carts]_vars

\* C2 witness: the empty-cart reply to a user whose only stored line names a
\* product that does not exist, while the other user has a line too.
EmptyCheckoutNoEffectWitness ==
    \E s \in Slots :
        /\ DoneTask(s, "checkout_callback")
        /\ tasks[s].res = "empty_cart"
        /\ UserRows(carts, tasks[s].user) # {}
        /\ \E r \in carts : r.user_id # tasks[s].user

\* C3: a checkout whose order write fails adds no order and leaves every
\* cart line as it was.
FailedOrderWriteKeepsCart ==
    [][\A s \in Slots :
          (BodyStep(s, "checkout_callback")
             /\ tasks'[s].res = "crash" /\ orders' = orders)
          => carts' = carts]_vars

\* C3 witness: a checkout that died in db_create_order, the lines it read
\* still in the cart and no order stored.
FailedOrderWriteKeepsCartWitness ==
    \E s \in Slots :
        /\ DoneTask(s, "checkout_callback")
        /\ tasks[s].res = "crash"
        /\ tasks[s].oid = 0
        /\ orders = {}
        /\ db_get_cart(carts, products, tasks[s].user).items # <<>>

\* C4: every checkout step either adds no order and leaves the cart of its
\* user as it was, or adds the order and leaves that cart empty.
CheckoutAtomic ==
    [][\A s \in Slots :
          BodyStep(s, "checkout_callback")
          => \/ orders' = orders /\ carts' = carts
             \/ orders' # orders /\ UserRows(carts', tasks[s].user) = {}]_vars

\* C5: of the checkouts of one user handled concurrently on one cart content,
\* none of which died between its two writes, at most one creates an order
\* (the user has as many orders as checkouts that created one); once one has,
\* the cart of the user is empty, which is what every later one reads.
OneOrderPerCart ==
    \A u \in Users :
        LET done    == {s \in Slots : DoneTask(s, "checkout_callback") /\ tasks[s].user = u}
            torn    == {s \in done : tasks[s].res = "crash" /\ tasks[s].oid # 0}
            created == {s \in done : tasks[s].res = "order_created"}
        IN  torn = {}
            => /\ Cardinality(created) <= 1
               /\ Cardinality({o \in orders : o.user_id = u}) = Cardinality(created)
               /\ created # {} => UserRows(carts, u) = {}

\* C5 witness: two checkouts of one user, one with its order, the other with
\* the empty-cart reply, and a third still waiting.
OneOrderPerCartWitness ==
    \E s, t, w \in Slots :
        /\ DoneTask(s, "checkout_callback") /\ tasks[s].res = "order_created"
        /\ DoneTask(t, "checkout_callback") /\ tasks[t].res = "empty_cart"
        /\ Running(w, "checkout_callback")
        /\ tasks[s].user = tasks[t].user /\ tasks[w].user = tasks[s].user
        /\ Cardinality({o \in orders : o.user_id = tasks[s].user}) = 1

Pids == {int(p) : p \in PidTokens}

UniqueLines(C) ==
    \A r1, r2 \in C :
        (r1.user_id = r2.user_id /\ r1.product_id = r2.product_id) => r1 = r2

\* a payload 'add_{pid}_{qty}' that the handler parses
IsAdd(d) == Len(d) = 3 /\ d[1] = "add" /\ IsInt(d[2]) /\ IsInt(d[3])

AddStep(s) == BodyStep(s, "callback_query_handler") /\ IsAdd(tasks[s].data)

\* C6: the carts table never holds two lines of one (user, product); an add
\* of n to (u, p) leaves exactly one line of (u, p), of quantity old + n when
\* there was a line and n when there was none, and no other line changes;
\* adding 1 twice gives the table that adding 2 once gives.
AddToCartMerges ==
    [][/\ UniqueLines(carts')
       /\ \A s \in Slots :
             AddStep(s) =>
               LET u == tasks[s].user
                   p == int(tasks[s].data[2])
                   n == int(tasks[s].data[3])
               IN  /\ CartRows(carts', u, p) =
                         {[user_id |-> u, product_id |-> p,
                           qty |-> IF CartRows(carts, u, p) = {} THEN n
                                   ELSE LineQty(carts, u, p) + n]}
                   /\ carts' \ CartRows(carts', u, p) = carts \ CartRows(carts, u, p)
       /\ \A u \in Users, p \in Pids :
             /\ db_add_to_cart(db_add_to_cart(carts', u, p, 1), u, p, 1)
                   = db_add_to_cart(carts', u, p, 2)
             /\ Cardinality(CartRows(db_add_to_cart(carts', u, p, 2), u, p)) = 1]_vars

\* C6 witness: the second add of 1 to a line has run and the line, the only
\* one of its key, has quantity 2.
AddToCartMergesWitness ==
    \E s \in Slots :
        /\ DoneTask(s, "callback_query_handler")
        /\ tasks[s].data = <<"add", "1", "1">>
        /\ CartRows(carts, tasks[s].user, 1)
              = {[user_id |-> tasks[s].user, product_id |-> 1, qty |-> 2]}

RECURSIVE SumQty(_)
SumQty(S) ==
    IF S = {} THEN 0
    ELSE LET s == CHOOSE x \in S : TRUE
         IN  int(tasks[s].data[3]) + SumQty(S \ {s})

\* C7: with add-to-cart handlers in flight at once, in every interleaving,
\* each one that has run replied "added", and the line of (u, p) holds the
\* sum of the amounts of all the adds to (u, p) that have run (no line when
\* none has run).
NoLostUpdate ==
    \A u \in Users, p \in Pids :
        LET done == {s \in Slots : /\ DoneTask(s, "callback_query_handler")
                                   /\ IsAdd(tasks[s].data)
                                   /\ tasks[s].user = u
                                   /\ int(tasks[s].data[2]) = p}
        IN  /\ \A s \in done : tasks[s].res = "added"
            /\ CartRows(carts, u, p) =
                  IF done = {} THEN {}
                  ELSE {[user_id |-> u, product_id |-> p, qty |-> SumQty(done)]}

\* C7 witness: three adds of 1 to one line in flight together, two of them
\* run, the line at 2.
NoLostUpdateWitness ==
    \E s, t, w \in Slots :
        /\ s # t
        /\ DoneTask(s, "callback_query_handler") /\ DoneTask(t, "callback_query_handler")
        /\ Running(w, "callback_query_handler")
        /\ \A x \in {s, t, w} : tasks[x].user = 1 /\ tasks[x].data = <<"add", "1", "1">>
        /\ LineQty(carts, 1, 1) = 2

\* C8: every stored cart line has a quantity of at least 1 (an add of a
\* quantity n <= 0 is rejected and stores nothing).
CartQtyPositive == \A r \in carts : r.qty >= 1

\* C9: every stored product has a non-empty title and a price >= 0 (a
\* submission with an empty title or a negative price stores nothing).
ProductsValid == \A p \in products : p.title # "" /\ p.price >= 0

\* C10: no step of a handler working for a user outside ADMIN_IDS changes
\* products or user_data; /admin_add and /admin_list_orders from such a user
\* end in the access-denied reply, a text message from such a user in the
\* fallback reply.
NonAdminDenied ==
    [][\A s \in Slots :
          (tasks[s] # Idle /\ tasks[s].user \notin ADMIN_IDS /\ tasks'[s] # tasks[s])
          => /\ products' = products
             /\ user_data' = user_data
             /\ (BodyStep(s, "admin_add_start") \/ BodyStep(s, "admin_list_orders_cmd"))
                  => tasks'[s].res = "denied"
             /\ BodyStep(s, "text_handler") => tasks'[s].res = "unknown_command"]_vars

\* C10 witness: /admin_list_orders from a user outside ADMIN_IDS denied
\* while an admin exists and an order is stored.
NonAdminDeniedWitness ==
    \E s \in Slots :
        /\ DoneTask(s, "admin_list_orders_cmd")
        /\ tasks[s].user \notin ADMIN_IDS
        /\ tasks[s].res = "denied"
        /\ ADMIN_IDS # {}
        /\ orders # {}

Range(f) == {f[i] : i \in DOMAIN f}

RECURSIVE SumLines(_, _)
SumLines(P, R) ==
    IF R = {} THEN 0
    ELSE LET r == CHOOSE x \in R : TRUE
         IN  (CHOOSE p \in P : p.id = r.product_id).price * r.qty + SumLines(P, R \ {r})

\* C11: for every user, db_get_cart lists each stored line of the user whose
\* product exists exactly once, with that product and the line's quantity,
\* lists nothing else, and its total is the sum of price * qty over those
\* lines; lines of missing products count for nothing.
GetCartResolvedOnly ==
    \A u \in Users :
        LET cart == db_get_cart(carts, products, u)
            live == {r \in UserRows(carts, u) : Resolves(products, r)}
        IN  /\ Len(cart.items) = Cardinality(live)
            /\ Range(cart.items) =
                  {[product |-> CHOOSE p \in products : p.id = r.product_id,
                    qty |-> r.qty] : r \in live}
            /\ cart.total = SumLines(products, live)

\* C11 witness: a user holds two of Widget (price 5) and a line of a product
\* that does not exist; the cart lists the one line and totals 10.
GetCartResolvedOnlyWitness ==
    \E u \in Users :
        /\ \E r \in UserRows(carts, u) : ~Resolves(products, r)
        /\ Len(db_get_cart(carts, products, u).items) = 1
        /\ db_get_cart(carts, products, u).items[1].qty = 2
        /\ db_get_cart(carts, products, u).total = 10

\* a payload 'remove_{pid}' that the handler parses
IsRemove(d) == Len(d) = 2 /\ d[1] = "remove" /\ IsInt(d[2])

RemoveStep(s) == BodyStep(s, "callback_query_handler") /\ IsRemove(tasks[s].data)

\* C12: a remove of (u, p) replies "removed", deletes the line of (u, p) and
\* changes no other cart line, no product and no order; without such a line
\* the table stays as it is; a second remove of (u, p) changes nothing.
RemoveDeletesOneLine ==
    [][\A s \in Slots :
          RemoveStep(s) =>
            LET u == tasks[s].user
                p == int(tasks[s].data[2])
            IN  /\ tasks'[s].res = "removed"
                /\ carts' = {r \in carts : ~(r.user_id = u /\ r.product_id = p)}
                /\ CartRows(carts, u, p) = {} => carts' = carts
                /\ db_remove_from_cart(carts', u, p) = carts'
                /\ products' = products
                /\ orders' = orders]_vars

\* C12 witness: "removed" replied to a user who has no line of product 1 but
\* keeps a line of product 2, while the other user has lines too.
RemoveDeletesOneLineWitness ==
    \E s \in Slots :
        /\ DoneTask(s, "callback_query_handler")
        /\ tasks[s].data = <<"remove", "1">>
        /\ tasks[s].res = "removed"
        /\ CartRows(carts, tasks[s].user, 1) = {}
        /\ CartRows(carts, tasks[s].user, 2) # {}
        /\ \E r \in carts : r.user_id # tasks[s].user

Ids(rows) == [i \in 1..Len(rows) |-> rows[i].id]

\* C13: for every page p >= 0, db_get_products returns at most PAGE_SIZE
\* products, the i-th of them the product with exactly PAGE_SIZE * p + i - 1
\* products of larger id, as many as are left from position PAGE_SIZE * p on
\* (none past the end); the pages are disjoint and cover the table; with 8
\* products page 0 is 8..3 and page 1 is 2, 1; /catalog replies "empty"
\* exactly when its page is empty.
CatalogPages ==
    LET n == Cardinality(products)
    IN  /\ \A p \in 0..n :
              LET r    == db_get_products(products, p)
                  left == n - PAGE_SIZE * p
              IN  /\ Len(r) = IF left < 0 THEN 0 ELSE IF left > PAGE_SIZE THEN PAGE_SIZE ELSE left
                  /\ \A i \in 1..Len(r) :
                        /\ r[i] \in products
                        /\ Cardinality({q \in products : q.id > r[i].id})
                              = PAGE_SIZE * p + i - 1
                  /\ \A q \in 0..n :
                        q # p => Range(r) \cap Range(db_get_products(products, q)) = {}
        /\ UNION {Range(db_get_products(products, p)) : p \in 0..n} = products
        /\ n = 8 => /\ Ids(db_get_products(products, 0)) = <<8, 7, 6, 5, 4, 3>>
                     /\ Ids(db_get_products(products, 1)) = <<2, 1>>
        /\ \A s \in Slots :
              DoneTask(s, "catalog") =>
                (tasks[s].res = "catalog_empty"
                   <=> db_get_products(products, catalog_page(tasks[s].data)) = <<>>)

\* C13 witness: with 8 products, /catalog 1 has shown a non-empty page, the
\* products 2 and 1.
CatalogPagesWitness ==
    \E s \in Slots :
        /\ DoneTask(s, "catalog")
        /\ tasks[s].data = <<"1">>
        /\ tasks[s].res = "catalog_shown"
        /\ Cardinality(products) = 8
        /\ Ids(db_get_products(products, 1)) = <<2, 1>>

\* C14: after a checkout that answered "order created", every listing
\* db_list_orders can return has the new order first, also when an earlier
\* order has the same created_at.
NewOrderListedFirst ==
    \A s \in Slots :
        (DoneTask(s, "checkout_callback") /\ tasks[s].res = "order_created")
          => \A rows \in db_list_orders(orders) : rows[1].id = tasks[s].oid

\* C15: no step removes or changes a stored order: every order row of a
\* state is a row of the next state, no two rows share an id, and every row
\* has status "new".
OrdersAppendOnly ==
    [][/\ orders \subseteq orders'
       /\ \A a, b \in orders' : a.id = b.id => a = b
       /\ \A o \in orders' : o.status = "new"]_vars

\* C15 witness: a second checkout of the same user has answered, and the
\* user's first order is still stored next to the second.
OrdersAppendOnlyWitness ==
    \E s \in Slots :
        /\ DoneTask(s, "checkout_callback")
        /\ tasks[s].res = "order_created"
        /\ tasks[s].oid = 2
        /\ \E a, b \in orders :
              /\ a.id = 1 /\ b.id = 2
              /\ a.user_id = tasks[s].user /\ b.user_id = tasks[s].user
              /\ a.status = "new" /\ b.status = "new"

\* C16: with the handlers as registered, a press of the cart's checkout
\* button (callback data checkout_0) by a user whose cart has items is
\* handled by checkout_callback.
CheckoutPressRouted ==
    \A s \in Slots :
        (/\ tasks[s].pc # "idle"
         /\ tasks[s].data = <<"checkout", "0">>
         /\ db_get_cart(carts, products, tasks[s].user).items # <<>>)
          => tasks[s].h = "checkout_callback"

ProductIds == {int(t) : t \in IntTokens}

\* C17: a step of text_handler that adds a product stores exactly one new
\* row, with an id larger than every earlier id and with the title,
\* description, price and image submitted, and db_get_product on that id
\* returns this row; every step keeps every stored product readable with
\* the same fields; db_get_product on an id no product has returns no row,
\* and a view of such an id ends in "not found".
AddProductThenGet ==
    [][/\ \A s \in Slots :
            (BodyStep(s, "text_handler") /\ tasks'[s].res = "product_added")
              => LET d   == tasks[s].data
                     new == products' \ products
                 IN  /\ Cardinality(new) = 1
                     /\ \A r \in new :
                           /\ \A p \in products : p.id < r.id
                           /\ r.title = strip(d[1])
                           /\ r.description = strip(d[2])
                           /\ r.price = int(strip(d[3]))
                           /\ r.image = IF Len(d) > 3 THEN strip(d[4]) ELSE None
                           /\ db_get_product(products', r.id) = r
       /\ \A p \in products : db_get_product(products', p.id) = p
       /\ \A pid \in ProductIds :
            (\A p \in products' : p.id # pid) => db_get_product(products', pid) = NoRow
       /\ \A s \in Slots :
            (/\ BodyStep(s, "callback_query_handler")
             /\ tasks[s].data[1] = "view"
             /\ \A p \in products : p.id # int(tasks[s].data[2]))
              => tasks'[s].res = "not_found"]_vars

\* C17 witness: the second product, submitted with an image, has been
\* viewed under id 2 with its four fields, the first is unchanged, and id 5
\* has no row.
AddProductThenGetWitness ==
    \E s \in Slots :
        /\ DoneTask(s, "callback_query_handler")
        /\ tasks[s].data = <<"view", "2">>
        /\ tasks[s].res = "product_shown"
        /\ db_get_product(products, 2)
             = [id |-> 2, title |-> "Gadget", description |-> "d", price |-> 2,
                image |-> "img"]
        /\ db_get_product(products, 1)
             = [id |-> 1, title |-> "Widget", description |-> "d", price |-> 5,
                image |-> None]
        /\ db_get_product(products, 5) = NoRow

UserOrders(O, u) == {o \in O : o.user_id = u}

\* the orders of O, oldest id first, without id and created_at
RECURSIVE OrderContents(_)
OrderContents(O) ==
    IF O = {} THEN <<>>
    ELSE LET o == CHOOSE x \in O : \A y \in O : x.id <= y.id
         IN  <<[user_id |-> o.user_id, items |-> o.items, total |-> o.total,
                status |-> o.status]>> \o OrderContents(O \ {o})

\* a step of a cart operation or a checkout of user u changes no cart line
\* and no order of another user
OthersUnchanged(u) ==
    \A v \in Users \ {u} :
        /\ UserRows(carts', v) = UserRows(carts, v)
        /\ UserOrders(orders', v) = UserOrders(orders, v)

\* the cart of u after a step of callback_query_handler is what the same
\* operation yields on the lines of u alone
CartOpLocal(s) ==
    LET u  == tasks[s].user
        d  == tasks[s].data
        Cu == UserRows(carts, u)
    IN  /\ UserOrders(orders', u) = UserOrders(orders, u)
        /\ UserRows(carts', u) =
              IF IsAdd(d) THEN db_add_to_cart(Cu, u, int(d[2]), int(d[3]))
              ELSE IF IsRemove(d) THEN db_remove_from_cart(Cu, u, int(d[2]))
              ELSE Cu

\* C18 as stated: a cart operation or a checkout of u changes no cart line
\* and no order of another user, and the cart and the orders of u after
\* the step are what the same operation yields on the cart lines and the
\* orders of u alone (so that any interleaving with another user's
\* operations gives u the cart and the orders, ids included, of u's
\* operations run alone).
CrossUserIndependent ==
    [][\A s \in Slots :
          /\ BodyStep(s, "callback_query_handler")
               => OthersUnchanged(tasks[s].user) /\ CartOpLocal(s)
          /\ BodyStep(s, "checkout_callback")
               => LET u    == tasks[s].user
                      Cu   == UserRows(carts, u)
                      Ou   == UserOrders(orders, u)
                      cart == db_get_cart(Cu, products, u)
                  IN  /\ OthersUnchanged(u)
                      /\ IF cart.items = <<>>
                         THEN UserRows(carts', u) = Cu /\ UserOrders(orders', u) = Ou
                         ELSE \E fault \in StorageFaults,
                                 ts \in {0} \cup {o.created_at : o \in orders'} :
                                LET w == checkout_writes(Ou, Cu, u, payload_items(cart.items),
                                                         cart.total, ts, fault)
                                IN  /\ UserRows(carts', u) = w.carts
                                    /\ UserOrders(orders', u) = w.orders]_vars

\* C18, amended: as above, with the orders of u compared by user, items,
\* total and status in the order of their creation; order ids and creation
\* times come from the one orders table and the clock all users share.
CrossUserIndependentContents ==
    [][\A s \in Slots :
          /\ BodyStep(s, "callback_query_handler")
               => OthersUnchanged(tasks[s].user) /\ CartOpLocal(s)
          /\ BodyStep(s, "checkout_callback")
               => LET u    == tasks[s].user
                      Cu   == UserRows(carts, u)
                      Ou   == UserOrders(orders, u)
                      cart == db_get_cart(Cu, products, u)
                  IN  /\ OthersUnchanged(u)
                      /\ Ou \subseteq UserOrders(orders', u)
                      /\ IF cart.items = <<>>
                         THEN UserRows(carts', u) = Cu /\ UserOrders(orders', u) = Ou
                         ELSE \E fault \in StorageFaults :
                                LET w == checkout_writes(Ou, Cu, u, payload_items(cart.items),
                                                         cart.total, 0, fault)
                                IN  /\ UserRows(carts', u) = w.carts
                                    /\ OrderContents(UserOrders(orders', u))
                                         = OrderContents(w.orders)]_vars

\* C18 witness: a user has checked out after the other user, whose order
\* has id 1: the new order has id 2, where a run of this user alone assigns
\* id 1, and the other user's cart line and order are still stored.
CrossUserIndependentWitness ==
    \E s \in Slots :
        /\ DoneTask(s, "checkout_callback")
        /\ tasks[s].res = "order_created"
        /\ tasks[s].oid = 2
        /\ \E v \in Users \ {tasks[s].user} :
              /\ \E o \in orders : o.id = 1 /\ o.user_id = v
              /\ UserRows(carts, v) # {}
        /\ UserRows(carts, tasks[s].user) = {}

RECURSIVE SumItems(_)
SumItems(items) ==
    IF items = <<>> THEN 0
    ELSE Head(items).price * Head(items).qty + SumItems(Tail(items))

\* C19: after every step, every stored order has at least one item and a
\* total equal to the sum of price * qty over its items; every item of an
\* order the step created has the qty of a cart line the order's user had
\* before the step and the id, title and price of the product that line
\* names.
OrdersConsistent ==
    [][/\ \A o \in orders' :
            /\ o.items # <<>>
            /\ o.total = SumItems(o.items)
       /\ \A o \in orders' \ orders :
            \A i \in DOMAIN o.items :
                \E r \in UserRows(carts, o.user_id), p \in products :
                    /\ p.id = r.product_id
                    /\ o.items[i].product_id = p.id
                    /\ o.items[i].title = p.title
                    /\ o.items[i].price = p.price
                    /\ o.items[i].qty = r.qty]_vars

\* C19 witness: an order of one item (qty 2, price 5) and total 10 is
\* stored, its handler has ended, and its user has put the product into the
\* cart again.
OrdersConsistentWitness ==
    /\ tasks[1] = Idle
    /\ \E o \in orders :
          /\ Len(o.items) = 1
          /\ o.items[1].qty = 2
          /\ o.items[1].price = 5
          /\ o.total = 10
          /\ LineQty(carts, o.user_id, o.items[1].product_id) = 1

\* a submission of fewer than 3 fields or with a price that is no integer
Malformed(d) == Len(d) < 3 \/ ~IsInt(strip(d[3]))

\* C20: products change only in a step of text_handler whose sender is in
\* ADMIN_IDS and has the admin_adding flag set; that step adds one product
\* and resets the flag; a malformed submission of such a sender adds nothing
\* and leaves the flag set, a well-formed one adds the product; a text of
\* any other sender changes nothing; the flag of a user becomes set only
\* when /admin_add of that user, a member of ADMIN_IDS, ends.
AdminAddTwoStep ==
    [][/\ products' # products
            => \E s \in Slots :
                  /\ BodyStep(s, "text_handler")
                  /\ tasks[s].user \in ADMIN_IDS
                  /\ user_data[tasks[s].user]
                  /\ ~user_data'[tasks[s].user]
                  /\ products \subseteq products'
                  /\ Cardinality(products' \ products) = 1
       /\ \A s \in Slots :
            BodyStep(s, "text_handler")
              => LET u == tasks[s].user
                     d == tasks[s].data
                 IN  IF u \in ADMIN_IDS /\ user_data[u]
                     THEN IF Malformed(d)
                          THEN /\ products' = products
                               /\ user_data' = user_data
                               /\ tasks'[s].res \in {"bad_format", "bad_price"}
                          ELSE /\ products' # products
                               /\ tasks'[s].res = "product_added"
                     ELSE /\ products' = products
                          /\ user_data' = user_data
                          /\ tasks'[s].res = "unknown_command"
       /\ \A u \in Users :
            (~user_data[u] /\ user_data'[u])
              => /\ u \in ADMIN_IDS
                 /\ \E s \in Slots :
                       /\ DoneTask(s, "admin_add_start")
                       /\ tasks[s].user = u
                       /\ tasks'[s] = Idle]_vars

\* C20 witness: after /admin_add an admin has sent a price that is no
\* integer: nothing is stored and the flag is still set for a retry.
AdminAddTwoStepWitness ==
    \E s \in Slots :
        /\ DoneTask(s, "text_handler")
        /\ tasks[s].data = <<"Widget", "d", "x">>
        /\ tasks[s].res = "bad_price"
        /\ tasks[s].user \in ADMIN_IDS
        /\ user_data[tasks[s].user]
        /\ products = {}

=============================================================================
